---------------------------- MODULE Spec2Model ----------------------------
(***************************************************************************)
(* A model of safe-migrate: the EIP-712 transaction hash, the ABI encoder, *)
(* the decimal codec and JSON form of a signed transaction, the private    *)
(* key (derivation, signing, wipe on drop) and the run procedure.          *)
(*                                                                         *)
(* Bytes are the integers 0..255.  A byte string is a sequence of bytes;   *)
(* Rust's half-open range lo..hi of a buffer is the positions lo+1..hi of  *)
(* the sequence.  An unsigned integer of w bytes is held as its base-256   *)
(* digits, least significant first (value = SUM d[i] * 256^(i-1)), so the   *)
(* full width of a u128 is representable; to_be_bytes converts it.         *)
(***************************************************************************)
EXTENDS Integers, Sequences, FiniteSets, TLC

VARIABLES
    call,   \* the arguments of the function under check, or NoCall
    ret,    \* what the function returned, or NoRet
    pc,                 \* where run is ("idle": run is not under check)
    options,            \* the command line: safe, owner, gas_token
    debug_assertions,   \* whether the build keeps debug assertions
    seed_phrase,        \* what read_password returned
    keys,               \* the storage of each PrivateKey run constructs
    secondary_recovery_address,
    info,               \* Some(SafeInfo) once get_safe returned it
    estimate,           \* Some(Estimate) once the relay returned it
    tx,                 \* Some(SafeTransaction) once built
    shown,              \* Some(the lines printed of tx, and of its hash)
    signed_tx,          \* Some(SignedSafeTransaction) once signed
    posted,             \* the bodies posted to the relay's transactions endpoint
    requests,           \* the HTTP requests run has sent to the relay, in order
    answers,            \* what term::confirm has read from stdin, in order
    result              \* Some(what run returned)

runVars == <<pc, options, debug_assertions, seed_phrase, keys,
             secondary_recovery_address, info, estimate, tx, shown, signed_tx,
             posted, requests, answers, result>>

vars == <<call, ret, runVars>>

NoCall == [fn |-> "none"]
NoRet == [kind |-> "none"]

---------------------------------------------------------------------------
(* Byte strings.  A sequence built as a function is given as s \o <<>>,    *)
(* the same sequence held as a tuple.                                      *)

Byte == 0..255

Zeros(n) == [i \in 1..n |-> 0]

Repeat(b, n) == [i \in 1..n |-> b]

Reverse(s) == [i \in 1..Len(s) |-> s[Len(s) + 1 - i]] \o <<>>

\* buffer[lo..hi].copy_from_slice(src); the slice lengths agree in every use
CopyFromSlice(buffer, lo, hi, src) ==
    [i \in 1..Len(buffer) |-> IF lo < i /\ i <= hi THEN src[i - lo] ELSE buffer[i]]
        \o <<>>

\* buffer[at] = b
SetByte(buffer, at, b) == [buffer EXCEPT ![at + 1] = b]

\* n as an unsigned integer of w bytes (digits least significant first)
RECURSIVE UInt(_, _)
UInt(n, w) == IF w = 0 THEN <<>> ELSE <<n % 256>> \o UInt(n \div 256, w - 1)

\* uN::to_be_bytes: most significant digit first
ToBeBytes(x) == Reverse(x)

---------------------------------------------------------------------------
(* hash::keccak256.  The sponge permutation belongs to the sha3 crate; the *)
(* model keeps what the program relies on: a deterministic function from   *)
(* byte strings of any length to 32 bytes.  The all-zero digest is in its  *)
(* range (nothing in the program excludes it).                             *)

KeccakModulus == 4093

\* a weight for each position, so that moving a byte changes the digest
Weight(i) == (31 * i * i + 17 * i + 1) % KeccakModulus

RECURSIVE Absorb(_, _, _)
Absorb(data, lo, hi) ==
    IF lo > hi THEN 0
    ELSE IF lo = hi THEN ((data[lo] + 1) * Weight(lo)) % KeccakModulus
    ELSE LET mid == (lo + hi) \div 2
         IN  (Absorb(data, lo, mid) + Absorb(data, mid + 1, hi)) % KeccakModulus

keccak256(data) ==
    LET h == (Absorb(data, 1, Len(data)) + Len(data)) % KeccakModulus
    IN  [i \in 1..32 |-> ((h % 256) * (2 * i + 1) + (h \div 256) * i) % 256] \o <<>>

---------------------------------------------------------------------------
(* safe/abi.rs *)

\* "addOwnerWithThreshold(address,uint256)"
AddOwnerSignature ==
    <<97, 100, 100, 79, 119, 110, 101, 114, 87, 105, 116, 104, 84, 104, 114,
      101, 115, 104, 111, 108, 100, 40, 97, 100, 100, 114, 101, 115, 115, 44,
      117, 105, 110, 116, 50, 53, 54, 41>>

add_owner_with_threshold_le(owner, threshold) ==
    LET data0 == Zeros(68)
        data1 == CopyFromSlice(data0, 0, 4, SubSeq(keccak256(AddOwnerSignature), 1, 4))
        data2 == CopyFromSlice(data1, 16, 36, owner)
        data3 == CopyFromSlice(data2, 64, 68, threshold)
    IN  data3

add_owner_with_threshold(owner, threshold) ==
    LET data0 == Zeros(68)
        data1 == CopyFromSlice(data0, 0, 4, SubSeq(keccak256(AddOwnerSignature), 1, 4))
        data2 == CopyFromSlice(data1, 16, 36, owner)
        data3 == CopyFromSlice(data2, 64, 68, ToBeBytes(threshold))
    IN  data3

---------------------------------------------------------------------------
(* safe/data.rs, safe/tx.rs *)

\* enum Operation { Call = 0 }, and `self.operation as u8`
Operations == {"Call"}
OperationAsU8(operation) == CASE operation = "Call" -> 0

\* Option<T>: None is <<>>, Some(v) is <<v>>
None == <<>>
Some(v) == <<v>>

\* Address::default(): the all-zero address
AddressDefault == Zeros(20)

unwrap_or_ones(option) == IF option = None THEN Repeat(255, 20) ELSE option[1]

\* Option<Address>::unwrap_or_default
unwrap_or_default(option) == IF option = None THEN AddressDefault ELSE option[1]

\* "EIP712Domain(address verifyingContract)"
DomainType ==
    <<69, 73, 80, 55, 49, 50, 68, 111, 109, 97, 105, 110, 40, 97, 100, 100,
      114, 101, 115, 115, 32, 118, 101, 114, 105, 102, 121, 105, 110, 103, 67,
      111, 110, 116, 114, 97, 99, 116, 41>>

\* "SafeTx(address to,uint256 value,bytes data,uint8 operation,
\*  uint256 safeTxGas,uint256 baseGas,uint256 gasPrice,address gasToken,
\*  address refundReceiver,uint256 nonce)"
SafeTxType ==
    <<83, 97, 102, 101, 84, 120, 40, 97, 100, 100, 114, 101, 115, 115, 32,
      116, 111, 44, 117, 105, 110, 116, 50, 53, 54, 32, 118, 97, 108, 117,
      101, 44, 98, 121, 116, 101, 115, 32, 100, 97, 116, 97, 44, 117, 105,
      110, 116, 56, 32, 111, 112, 101, 114, 97, 116, 105, 111, 110, 44, 117,
      105, 110, 116, 50, 53, 54, 32, 115, 97, 102, 101, 84, 120, 71, 97, 115,
      44, 117, 105, 110, 116, 50, 53, 54, 32, 98, 97, 115, 101, 71, 97, 115,
      44, 117, 105, 110, 116, 50, 53, 54, 32, 103, 97, 115, 80, 114, 105, 99,
      101, 44, 97, 100, 100, 114, 101, 115, 115, 32, 103, 97, 115, 84, 111,
      107, 101, 110, 44, 97, 100, 100, 114, 101, 115, 115, 32, 114, 101, 102,
      117, 110, 100, 82, 101, 99, 101, 105, 118, 101, 114, 44, 117, 105, 110,
      116, 50, 53, 54, 32, 110, 111, 110, 99, 101, 41>>

\* the inner 64-byte buffer of hash (tx.rs 38..44)
DomainBuffer(safe) ==
    LET b0 == Zeros(64)
        b1 == CopyFromSlice(b0, 0, 32, keccak256(DomainType))
        b2 == CopyFromSlice(b1, 44, 64, safe)
    IN  b2

StructBuffer_gas_token_left(self) ==
    LET b0 == Zeros(352)
        b1 == CopyFromSlice(b0, 0, 32, keccak256(SafeTxType))
        b2 == CopyFromSlice(b1, 44, 64, self.to)
        b3 == CopyFromSlice(b2, 80, 96, ToBeBytes(self.value))
        b4 == CopyFromSlice(b3, 96, 128, keccak256(self.data))
        b5 == SetByte(b4, 159, OperationAsU8(self.operation))
        b6 == CopyFromSlice(b5, 176, 192, ToBeBytes(self.safe_tx_gas))
        b7 == CopyFromSlice(b6, 208, 224, ToBeBytes(self.base_gas))
        b8 == CopyFromSlice(b7, 240, 256, ToBeBytes(self.gas_price))
        b9 == CopyFromSlice(b8, 256, 276, unwrap_or_default(self.gas_token))
        b10 == CopyFromSlice(b9, 300, 320, unwrap_or_default(self.refund_receiver))
        b11 == CopyFromSlice(b10, 344, 352, ToBeBytes(self.nonce))
    IN  b11

\* the inner 352-byte buffer of hash (tx.rs 48..72)
StructBuffer(self) ==
    LET b0 == Zeros(352)
        b1 == CopyFromSlice(b0, 0, 32, keccak256(SafeTxType))
        b2 == CopyFromSlice(b1, 44, 64, self.to)
        b3 == CopyFromSlice(b2, 80, 96, ToBeBytes(self.value))
        b4 == CopyFromSlice(b3, 96, 128, keccak256(self.data))
        b5 == SetByte(b4, 159, OperationAsU8(self.operation))
        b6 == CopyFromSlice(b5, 176, 192, ToBeBytes(self.safe_tx_gas))
        b7 == CopyFromSlice(b6, 208, 224, ToBeBytes(self.base_gas))
        b8 == CopyFromSlice(b7, 240, 256, ToBeBytes(self.gas_price))
        b9 == CopyFromSlice(b8, 268, 288, unwrap_or_default(self.gas_token))
        b10 == CopyFromSlice(b9, 300, 320, unwrap_or_default(self.refund_receiver))
        b11 == CopyFromSlice(b10, 344, 352, ToBeBytes(self.nonce))
    IN  b11

HashBuffer_swapped(self, safe) ==
    LET b0 == Zeros(66)
        b1 == CopyFromSlice(b0, 0, 2, <<25, 1>>)
        b2 == CopyFromSlice(b1, 2, 34, keccak256(StructBuffer(self)))
        b3 == CopyFromSlice(b2, 34, 66, keccak256(DomainBuffer(safe)))
    IN  b3

\* the outer 66-byte buffer of hash (tx.rs 35..74); b"\x19\x01" is <<25, 1>>
HashBuffer(self, safe) ==
    LET b0 == Zeros(66)
        b1 == CopyFromSlice(b0, 0, 2, <<25, 1>>)
        b2 == CopyFromSlice(b1, 2, 34, keccak256(DomainBuffer(safe)))
        b3 == CopyFromSlice(b2, 34, 66, keccak256(StructBuffer(self)))
    IN  b3

\* SafeTransaction::hash
SafeTransaction_hash(self, safe) == keccak256(HashBuffer(self, safe))

---------------------------------------------------------------------------
(* safe/data.rs, mod bigint: decimal digits are 0..9, least significant    *)
(* first while the sum is built                                            *)

Max(a, b) == IF a >= b THEN a ELSE b

\* x.resize(n, 0)
Resize(x, n) == [i \in 1..n |-> IF i <= Len(x) THEN x[i] ELSE 0] \o <<>>

\* one turn of the loop of add (data.rs 188..190): st is <<x, carry>>
AddTurn(y, i, st) ==
    LET d == st[1][i] + st[2] + (IF i <= Len(y) THEN y[i] ELSE 0)
    IN  <<[st[1] EXCEPT ![i] = d % 10], d \div 10>>

\* the turns for i = lo, lo + 1, .. hi - 1, in this order, from st on.  The
\* loop is split in halves to keep the evaluation shallow; the test on `half`
\* always holds and only fixes the order of evaluation.
RECURSIVE AddLoop(_, _, _, _)
AddLoop(y, lo, hi, st) ==
    IF lo >= hi THEN st
    ELSE IF hi = lo + 1 THEN AddTurn(y, lo, st)
    ELSE LET mid == (lo + hi) \div 2
             half == AddLoop(y, lo, mid, st)
         IN  IF Len(half) = 2 THEN AddLoop(y, mid, hi, half) ELSE half

\* bigint::add(x, y): x += y, and the push of the last carry
add(x, y) ==
    LET resized == Resize(x, Max(Len(x), Len(y)))
        st == AddLoop(y, 1, Len(resized) + 1, <<resized, 0>>)
    IN  IF st[2] = 1 THEN Append(st[1], 1) ELSE st[1]

\* (byte >> k) & 0x1 != 0
BitIsSet(byte, k) == (byte \div (2 ^ k)) % 2 # 0

\* one turn of the loop of htod (data.rs 166..174): st is <<digits, power>>
HtodTurn(data, bit, st) ==
    LET byte == data[Len(data) - (bit \div 8)]
        is_set == BitIsSet(byte, bit % 8)
    IN  <<IF is_set THEN add(st[1], st[2]) ELSE st[1], add(st[2], st[2])>>

\* the turns for bit = lo, lo + 1, .. hi - 1, in this order, from st on,
\* split in halves as in AddLoop
RECURSIVE HtodTurns(_, _, _, _)
HtodTurns(data, lo, hi, st) ==
    IF lo >= hi THEN st
    ELSE IF hi = lo + 1 THEN HtodTurn(data, lo, st)
    ELSE LET mid == (lo + hi) \div 2
             half == HtodTurns(data, lo, mid, st)
         IN  IF Len(half) = 2 THEN HtodTurns(data, mid, hi, half) ELSE half

\* digits and power as the loop of htod leaves them
HtodLoop(data) == HtodTurns(data, 0, Len(data) * 8, <<(<<0>>), (<<1>>)>>)

htod_unreversed(data) ==
    LET digits == HtodLoop(data)[1]
    IN  [i \in 1..Len(digits) |-> digits[i] + 48] \o <<>>

\* bigint::htod: the digits reversed, b'0' (48) added to each
htod(data) ==
    LET digits == HtodLoop(data)[1]
    IN  [i \in 1..Len(digits) |-> Reverse(digits)[i] + 48] \o <<>>

---------------------------------------------------------------------------
(* safe/data.rs: the JSON form of a signed transaction.  A JSON value is a *)
(* record with its type; a string or a number carries its text (ASCII).    *)

JsonNull == [type |-> "null"]
JsonString(text) == [type |-> "string", text |-> text]
\* exact: the text is the digits of the value (FALSE: an f64 approximation,
\* whose text the model does not render)
JsonNumber(text, exact) == [type |-> "number", text |-> text, exact |-> exact]
JsonPanic == [type |-> "panic"]

\* hex::encode: two lowercase hexadecimal digits for each byte
HexDigit(n) == IF n < 10 THEN 48 + n ELSE 87 + n
HexEncode(bytes) ==
    [i \in 1..(2 * Len(bytes)) |->
        IF i % 2 = 1 THEN HexDigit(bytes[(i + 1) \div 2] \div 16)
        ELSE HexDigit(bytes[i \div 2] % 16)] \o <<>>

\* prefixed_hex::serialize: serialize_str(format!("0x{}", hex::encode(value)))
prefixed_hex_serialize(value) == JsonString(<<48, 120>> \o HexEncode(value))

\* what serde_json accepts as an integer literal: digits, no leading zero
IsJsonInteger(text) ==
    /\ Len(text) >= 1
    /\ \A i \in 1..Len(text) : text[i] \in 48..57
    /\ text[1] = 48 => Len(text) = 1

\* u64::MAX, "18446744073709551615"
U64MaxText ==
    <<49, 56, 52, 52, 54, 55, 52, 52, 48, 55, 51, 55, 48, 57, 53, 53, 49, 54, 49, 53>>

RECURSIVE LexLeq(_, _, _)
LexLeq(a, b, i) ==
    IF i > Len(a) THEN TRUE
    ELSE IF a[i] # b[i] THEN a[i] < b[i]
    ELSE LexLeq(a, b, i + 1)

FitsU64(text) ==
    \/ Len(text) < Len(U64MaxText)
    \/ Len(text) = Len(U64MaxText) /\ LexLeq(text, U64MaxText, 1)

\* serde_json::from_str::<Number>(text) and the Serialize of the Number: with
\* the crate's arbitrary_precision feature the literal is kept as it is,
\* without it an integer beyond u64 becomes an f64
NumberFromStr(text, arbitrary_precision) ==
    IF ~IsJsonInteger(text) THEN JsonPanic
    ELSE IF arbitrary_precision \/ FitsU64(text) THEN JsonNumber(text, TRUE)
    ELSE JsonNumber(<<>>, FALSE)

bigint_serialize_str(value, arbitrary_precision) == JsonString(htod(value))

\* bigint::serialize: from_str::<Number>(&htod(value)).expect("invalid number")
bigint_serialize(value, arbitrary_precision) ==
    NumberFromStr(htod(value), arbitrary_precision)

\* a u8, u64 or u128 field with no serde attribute: a JSON number, its
\* decimal digits
SerializeUInt(x) == JsonNumber(htod(ToBeBytes(x)), TRUE)

\* Serialize of Address: a string, 0x and the hexadecimal digits
SerializeAddress(address) == JsonString(<<48, 120>> \o HexEncode(address))

SerializeOptionAddress(option) ==
    IF option = None THEN JsonNull ELSE SerializeAddress(option[1])

\* #[derive(Serialize)] #[serde(rename_all = "camelCase")] of Signature
SerializeSignature(signature, arbitrary_precision) ==
    [v |-> SerializeUInt(<<signature.v>>),
     r |-> bigint_serialize(signature.r, arbitrary_precision),
     s |-> bigint_serialize(signature.s, arbitrary_precision)]

\* #[derive(Serialize)] #[serde(rename_all = "camelCase")] of SignedSafeTransaction
SerializeSigned(self, arbitrary_precision) ==
    [safe |-> SerializeAddress(self.safe),
     to |-> SerializeAddress(self.to),
     value |-> SerializeUInt(self.value),
     data |-> prefixed_hex_serialize(self.data),
     operation |-> SerializeUInt(<<OperationAsU8(self.operation)>>),
     gasToken |-> SerializeOptionAddress(self.gas_token),
     safeTxGas |-> SerializeUInt(self.safe_tx_gas),
     dataGas |-> SerializeUInt(self.data_gas),
     gasPrice |-> SerializeUInt(self.gas_price),
     refundReceiver |-> SerializeOptionAddress(self.refund_receiver),
     nonce |-> SerializeUInt(self.nonce),
     signatures |-> [i \in 1..Len(self.signatures) |->
                        SerializeSignature(self.signatures[i], arbitrary_precision)]]

---------------------------------------------------------------------------
(* secret.rs.  A secret key is its scalar, a positive integer; the curve   *)
(* arithmetic, BIP-39 and BIP-32 are the libraries' (secp256k1, bip39,     *)
(* tiny_hderive) and are modelled by what run observes of them.            *)

\* secp256k1::key::ONE_KEY, the scalar 1
ONE_KEY == 1

Ok(v) == [ok |-> TRUE, value |-> v]
Err(e) == [ok |-> FALSE, error |-> e]

\* Mnemonic::from_phrase: the phrases of the word list with a good checksum
ValidPhrases == {"myth like bonus", "legal winner thank", "letter advice cage"}

\* the outcome of ExtendedPrivKey::derive and of SecretKey::from_slice for a
\* valid phrase and an index: the scalar, or the step that failed
HdSecret(phrase, index) ==
    CASE phrase = "myth like bonus" -> Ok(1000 + 7 * index)
      [] phrase = "legal winner thank" ->
            IF index = 0 THEN Ok(2000) ELSE Err("failed to derive key from seed")
      [] phrase = "letter advice cage" ->
            IF index = 0 THEN Ok(3000) ELSE Err("malformed or out-of-range secret key")
      [] OTHER -> Err("failed to derive key from seed")

\* PrivateKey::from_mnemonic_at_index: Ok(scalar) or Err
from_mnemonic_at_index(phrase, index) ==
    IF phrase \notin ValidPhrases THEN Err("invalid word in phrase")
    ELSE HdSecret(phrase, index)

\* PrivateKey::from_mnemonic
from_mnemonic(phrase) == from_mnemonic_at_index(phrase, 0)

\* PublicKey::from_secret_key(..).serialize_uncompressed(): 65 bytes, the tag
\* 0x04 first
SerializeUncompressed(key) ==
    <<4>> \o ([i \in 1..64 |-> (key * (2 * i + 1) + i) % 256] \o <<>>)

\* PrivateKey::address: the last 20 bytes of the hash of the key without tag
address(key) ==
    LET public_key == SerializeUncompressed(key)
        hash == keccak256(SubSeq(public_key, 2, 65))
    IN  SubSeq(hash, 13, 32)

\* Message::from_slice: a message must be 32 bytes and not all zero
MessageFromSlice(message) ==
    IF Len(message) # 32 \/ message = Zeros(32) THEN Err("InvalidMessage")
    ELSE Ok(message)

\* sign_recoverable(..).serialize_compact(): the 64 bytes of r and s; the
\* recovery id comes with them and is the library's to choose
SerializeCompact(message, key) ==
    [i \in 1..64 |-> (message[((i - 1) % 32) + 1] + key * i + (i \div 33) * 101) % 256]
        \o <<>>

\* the recovery ids a RecoveryId can hold
RecoveryIds == 0..3

Panic(message) == [kind |-> "panic", message |-> message]

PrivateKey_sign_err(key, message, recovery_id, debug) ==
    IF ~MessageFromSlice(message).ok THEN [kind |-> "err", error |-> "SigningFailure"]
    ELSE IF debug /\ recovery_id \notin {0, 1}
    THEN Panic("assertion failed")
    ELSE LET raw_signature == SerializeCompact(message, key)
         IN  [kind |-> "signature",
              v |-> (27 + recovery_id) % 256,
              r |-> SubSeq(raw_signature, 1, 32),
              s |-> SubSeq(raw_signature, 33, 64)]

\* PrivateKey::sign: the Signature, or the panic of expect or of debug_assert
PrivateKey_sign(key, message, recovery_id, debug) ==
    IF ~MessageFromSlice(message).ok THEN Panic("invalid message")
    ELSE IF debug /\ recovery_id \notin {0, 1}
    THEN Panic("assertion failed")
    ELSE LET raw_signature == SerializeCompact(message, key)
         IN  [kind |-> "signature",
              v |-> (27 + recovery_id) % 256,
              r |-> SubSeq(raw_signature, 1, 32),
              s |-> SubSeq(raw_signature, 33, 64)]

---------------------------------------------------------------------------
(* The specifications of the single functions do not call run: its       *)
(* variables stay as they are.                                             *)

RunIdle ==
    /\ pc = "idle"
    /\ options = <<>>
    /\ debug_assertions = FALSE
    /\ seed_phrase = <<>>
    /\ keys = <<>>
    /\ secondary_recovery_address = <<>>
    /\ info = <<>>
    /\ estimate = <<>>
    /\ tx = <<>>
    /\ shown = <<>>
    /\ signed_tx = <<>>
    /\ posted = <<>>
    /\ requests = <<>>
    /\ answers = <<>>
    /\ result = <<>>

---------------------------------------------------------------------------
(* Inputs *)

\* 20-byte addresses: distinct bytes, a repeated byte, the zero address
AddrSeq == [i \in 1..20 |-> 16 + i]
AddrDesc == [i \in 1..20 |-> 255 - i]
Addresses == {AddrSeq, AddrDesc, Repeat(238, 20), Repeat(1, 20), Zeros(20)}

\* u32 values, as 4 digits
U32Values ==
    {UInt(n, 4) : n \in {0, 1, 2, 66, 255, 256, 65535, 65536, 16777216}}
        \cup {<<4, 3, 2, 1>>, <<255, 255, 255, 255>>, <<0, 0, 0, 128>>}

---------------------------------------------------------------------------
(* The ABI encoder applied to every owner and threshold of the input sets *)

InitAbi ==
    /\ RunIdle
    /\ call \in [fn : {"add_owner_with_threshold"}, owner : Addresses,
                 threshold : U32Values]
    /\ ret = NoRet

AddOwnerCall ==
    /\ call.fn = "add_owner_with_threshold"
    /\ ret = NoRet
    /\ ret' = [kind |-> "bytes",
               data |-> add_owner_with_threshold(call.owner, call.threshold)]
    /\ UNCHANGED <<call, runVars>>

NextAbi == AddOwnerCall

SpecAbi == InitAbi /\ [][NextAbi]_vars

\* C3: add_owner_with_threshold returns exactly 68 bytes: the first 4 bytes
\* of keccak256("addOwnerWithThreshold(address,uint256)"), 12 zero bytes, the
\* 20 owner bytes, 28 zero bytes, and the threshold big-endian in the last 4.
C3_AddOwnerLayout ==
    ret.kind = "bytes" =>
        /\ Len(ret.data) = 68
        /\ \A i \in 1..4 : ret.data[i] = keccak256(AddOwnerSignature)[i]
        /\ \A i \in 5..16 : ret.data[i] = 0
        /\ \A i \in 1..20 : ret.data[16 + i] = call.owner[i]
        /\ \A i \in 37..64 : ret.data[i] = 0
        /\ \A i \in 1..4 : ret.data[64 + i] = call.threshold[5 - i]

C3_Witness ==
    /\ ret.kind = "bytes"
    /\ call.owner = AddrSeq
    /\ call.threshold = <<4, 3, 2, 1>>

---------------------------------------------------------------------------
(* SafeTransaction::hash applied to every record of the input sets *)

U128Zero == Zeros(16)
U128Max == Repeat(255, 16)
U128Asc == [i \in 1..16 |-> 32 + i]
U128Desc == [i \in 1..16 |-> 200 - i]

Transactions ==
    [to : {AddrSeq, Repeat(1, 20)},
     value : {U128Zero, U128Asc},
     data : {<<>>, <<3>>},
     operation : Operations,
     safe_tx_gas : {U128Max, UInt(4, 16)},
     base_gas : {U128Desc, UInt(5, 16)},
     gas_price : {U128Zero, UInt(1536, 16)},
     gas_token : {None, Some(AddressDefault), Some(Repeat(7, 20))},
     refund_receiver : {None, Some(AddressDefault), Some(AddrDesc)},
     nonce : {UInt(9, 8), <<8, 7, 6, 5, 4, 3, 2, 1>>}]

InitHash ==
    /\ RunIdle
    /\ call \in [fn : {"hash"}, tx : Transactions, safe : {AddrDesc, Repeat(238, 20)}]
    /\ ret = NoRet

\* hash, keeping its three buffers beside the digest it returns
HashCall ==
    /\ call.fn = "hash"
    /\ ret = NoRet
    /\ ret' = [kind |-> "hash",
               domain_buffer |-> DomainBuffer(call.safe),
               struct_buffer |-> StructBuffer(call.tx),
               buffer |-> HashBuffer(call.tx, call.safe),
               digest |-> SafeTransaction_hash(call.tx, call.safe)]
    /\ UNCHANGED <<call, runVars>>

NextHash == HashCall

SpecHash == InitHash /\ [][NextHash]_vars

\* a field right-aligned in a 32-byte slot, every other byte zero
Slot(field) == Zeros(32 - Len(field)) \o field

\* the bytes of an unsigned integer, most significant first
BigEndian(x) == [i \in 1..Len(x) |-> x[Len(x) + 1 - i]]

AddressOrZero(option) == IF option = <<>> THEN Zeros(20) ELSE option[1]

\* C1: the struct-hash preimage is exactly 352 bytes, eleven 32-byte slots in
\* the order type hash, to, value, keccak256(data), operation, safe_tx_gas,
\* base_gas, gas_price, gas_token, refund_receiver, nonce; every field is
\* right-aligned in its own slot and every byte no field writes is zero.
C1_StructPreimageLayout ==
    ret.kind = "hash" =>
        /\ Len(ret.struct_buffer) = 352
        /\ ret.struct_buffer =
               keccak256(SafeTxType)
            \o Slot(call.tx.to)
            \o Slot(BigEndian(call.tx.value))
            \o keccak256(call.tx.data)
            \o Slot(<<0>>)
            \o Slot(BigEndian(call.tx.safe_tx_gas))
            \o Slot(BigEndian(call.tx.base_gas))
            \o Slot(BigEndian(call.tx.gas_price))
            \o Slot(AddressOrZero(call.tx.gas_token))
            \o Slot(AddressOrZero(call.tx.refund_receiver))
            \o Slot(BigEndian(call.tx.nonce))
        /\ Len(call.tx.to) = 20
        /\ Len(call.tx.value) = 16 /\ Len(call.tx.safe_tx_gas) = 16
        /\ Len(call.tx.base_gas) = 16 /\ Len(call.tx.gas_price) = 16
        /\ Len(call.tx.nonce) = 8
        /\ call.tx.operation = "Call"

C1_Witness ==
    /\ ret.kind = "hash"
    /\ call.tx.to = AddrSeq
    /\ call.tx.value = U128Asc
    /\ call.tx.safe_tx_gas = U128Max
    /\ call.tx.gas_token = Some(Repeat(7, 20))
    /\ call.tx.refund_receiver = Some(AddrDesc)
    /\ call.tx.nonce = <<8, 7, 6, 5, 4, 3, 2, 1>>

\* C2: the digest is the hash of exactly 66 bytes: 0x19 0x01, the 32-byte
\* domain separator, the 32-byte struct hash; the domain separator is the
\* hash of 64 bytes: the hash of the domain type, 12 zero bytes and the 20
\* bytes of the verifying contract address.
C2_DigestLayout ==
    ret.kind = "hash" =>
        /\ Len(ret.domain_buffer) = 64
        /\ ret.domain_buffer = keccak256(DomainType) \o Zeros(12) \o call.safe
        /\ Len(ret.buffer) = 66
        /\ ret.buffer = <<25, 1>> \o keccak256(ret.domain_buffer)
                                  \o keccak256(ret.struct_buffer)
        /\ ret.digest = keccak256(ret.buffer)

C2_Witness ==
    /\ ret.kind = "hash"
    /\ call.safe = AddrDesc
    /\ keccak256(ret.domain_buffer) # keccak256(ret.struct_buffer)

WithGasToken(self, token) == [self EXCEPT !.gas_token = token]
WithRefundReceiver(self, receiver) == [self EXCEPT !.refund_receiver = receiver]

\* C9: a record whose gas_token (or refund_receiver) is absent has the same
\* struct-hash preimage and the same digest as the otherwise identical
\* record that holds the all-zero address there.
C9_AbsentIsZeroAddress ==
    ret.kind = "hash" =>
        /\ call.tx.gas_token = <<>> =>
              /\ ret.struct_buffer = StructBuffer(WithGasToken(call.tx, <<Zeros(20)>>))
              /\ ret.digest =
                    SafeTransaction_hash(WithGasToken(call.tx, <<Zeros(20)>>), call.safe)
        /\ call.tx.refund_receiver = <<>> =>
              /\ ret.struct_buffer =
                    StructBuffer(WithRefundReceiver(call.tx, <<Zeros(20)>>))
              /\ ret.digest =
                    SafeTransaction_hash(WithRefundReceiver(call.tx, <<Zeros(20)>>),
                                         call.safe)

C9_Witness ==
    /\ ret.kind = "hash"
    /\ call.tx.gas_token = <<>>
    /\ call.tx.refund_receiver = <<>>
    /\ call.tx.to = AddrSeq

---------------------------------------------------------------------------
(* htod applied to every byte string of the input set *)

MaxHtodLen == 3

HtodBytes == {0, 1, 9, 10, 100, 128, 255}

\* the 32-byte value of the test hex_to_decimal (data.rs 206..208)
Fixture32 ==
    <<66, 25, 1, 42, 248, 68, 5, 101, 130, 188, 105, 57, 156, 35, 141, 210,
      8, 152, 21, 164, 22, 77, 70, 185, 196, 60, 227, 21, 133, 44, 90, 238>>

HtodInputs ==
    UNION {[1..n -> HtodBytes] : n \in 0..MaxHtodLen}
        \cup {Fixture32, Zeros(32), Repeat(255, 32), <<0>> \o Fixture32, <<19, 55>>}

InitHtod ==
    /\ RunIdle
    /\ call \in [fn : {"htod"}, data : HtodInputs]
    /\ ret = NoRet

HtodCall ==
    /\ call.fn = "htod"
    /\ ret = NoRet
    /\ ret' = [kind |-> "string", text |-> htod(call.data)]
    /\ UNCHANGED <<call, runVars>>

NextHtod == HtodCall

SpecHtod == InitHtod /\ [][NextHtod]_vars

\* digit i of acc * 10 + carry on base-256 digits (least significant
\* first): st is <<acc, carry>>
MulTenTurn(i, st) ==
    LET d == st[1][i] * 10 + st[2]
    IN  <<[st[1] EXCEPT ![i] = d % 256], d \div 256>>

\* the digits lo .. hi - 1 in this order, split in halves as in AddLoop
RECURSIVE MulTenLoop(_, _, _)
MulTenLoop(lo, hi, st) ==
    IF lo >= hi THEN st
    ELSE IF hi = lo + 1 THEN MulTenTurn(lo, st)
    ELSE LET mid == (lo + hi) \div 2
             half == MulTenLoop(lo, mid, st)
         IN  IF Len(half) = 2 THEN MulTenLoop(mid, hi, half) ELSE half

\* acc * 10 + digit, with no leading zero
MulTenAdd(acc, digit) ==
    LET st == MulTenLoop(1, Len(acc) + 1, <<acc, digit>>)
    IN  IF st[2] = 0 THEN st[1] ELSE Append(st[1], st[2])

\* the characters lo .. hi - 1 of text read after the number acc, split in
\* halves as in AddLoop
RECURSIVE ParseLoop(_, _, _, _)
ParseLoop(text, lo, hi, acc) ==
    IF lo >= hi THEN acc
    ELSE IF hi = lo + 1 THEN MulTenAdd(acc, text[lo] - 48)
    ELSE LET mid == (lo + hi) \div 2
             half == ParseLoop(text, lo, mid, acc)
         IN  IF Len(half) >= 0 THEN ParseLoop(text, mid, hi, half) ELSE half

\* the integer a decimal string denotes, as base-256 digits with no leading zero
ParseDecimal(text) == ParseLoop(text, 1, Len(text) + 1, <<>>)

\* the integer a big-endian byte string denotes, as base-256 digits with no leading zero
Minimal(bytes) ==
    LET set == {i \in 1..Len(bytes) : bytes[i] # 0}
    IN  IF set = {} THEN <<>>
        ELSE LET first == CHOOSE i \in set : \A j \in set : i <= j
             IN  Reverse(SubSeq(bytes, first, Len(bytes)))

\* C4: htod returns the minimal decimal string of the big-endian integer:
\* only digits, parsing it back gives the integer, no leading zero unless the
\* value is zero, and the empty and the all-zero inputs give "0".
C4_HtodMinimalDecimal ==
    ret.kind = "string" =>
        /\ Len(ret.text) >= 1
        /\ \A i \in 1..Len(ret.text) : ret.text[i] \in 48..57
        /\ ParseDecimal(ret.text) = Minimal(call.data)
        /\ ret.text[1] = 48 => ret.text = <<48>>
        /\ (\A i \in 1..Len(call.data) : call.data[i] = 0) <=> ret.text = <<48>>

C4_Witness ==
    /\ ret.kind = "string"
    /\ call.data = Fixture32
    /\ Len(ret.text) = 77
    /\ SubSeq(ret.text, 1, 5) = <<50, 57, 56, 57, 54>>

---------------------------------------------------------------------------
(* The serialization of every signed transaction of the input set *)

Signatures ==
    [v : {27, 28},
     r : {Fixture32, Zeros(31) \o <<5>>},
     s : {Zeros(32), Zeros(24) \o Repeat(255, 8) (* u64::MAX *),
          Zeros(23) \o <<1>> \o Zeros(8) (* u64::MAX + 1 *)}]

SignedTransactions ==
    [safe : {AddrDesc},
     to : {AddrDesc},
     value : {U128Asc},
     data : {<<3>>},
     operation : Operations,
     gas_token : {None, Some(Repeat(7, 20))},
     safe_tx_gas : {U128Max, UInt(4, 16)},
     data_gas : {UInt(5, 16)},
     gas_price : {UInt(1536, 16)},
     refund_receiver : {None},
     nonce : {UInt(9, 8)},
     signatures : {<<sig>> : sig \in Signatures}]

InitJson ==
    /\ RunIdle
    /\ call \in [fn : {"to_vec"}, tx : SignedTransactions,
                 arbitrary_precision : BOOLEAN]
    /\ ret = NoRet

\* serde_json::to_vec(body) in post_json, for a signed transaction
SerializeCall ==
    /\ call.fn = "to_vec"
    /\ ret = NoRet
    /\ ret' = [kind |-> "json",
               body |-> SerializeSigned(call.tx, call.arbitrary_precision)]
    /\ UNCHANGED <<call, runVars>>

NextJson == SerializeCall

SpecJson == InitJson /\ [][NextJson]_vars

\* the values of the fields wider than 64 bits
WideFields(body) ==
    {body.value, body.safeTxGas, body.dataGas, body.gasPrice,
     body.signatures[1].r, body.signatures[1].s}

\* C5 as stated: every unsigned integer field wider than 64 bits (value,
\* safe_tx_gas, data_gas, gas_price, r, s) is emitted as a base-10 string and
\* never as a JSON number.
C5_WideIntegersAreStrings ==
    ret.kind = "json" => \A f \in WideFields(ret.body) : f.type = "string"

\* C5 as the code has it: every one of these fields is emitted as a JSON
\* number and never as a string: the 128-bit fields as their decimal digits,
\* r and s as the Number read from the decimal string of htod, whose digits
\* are kept whenever the Number is exact.
C5_WideIntegersAreNumbers ==
    ret.kind = "json" =>
        /\ \A f \in WideFields(ret.body) : f.type = "number"
        /\ ret.body.value.text = htod(BigEndian(call.tx.value))
        /\ ret.body.safeTxGas.text = htod(BigEndian(call.tx.safe_tx_gas))
        /\ ret.body.dataGas.text = htod(BigEndian(call.tx.data_gas))
        /\ ret.body.gasPrice.text = htod(BigEndian(call.tx.gas_price))
        /\ LET sig == ret.body.signatures[1]
           IN  /\ sig.r.exact => sig.r.text = htod(call.tx.signatures[1].r)
               /\ sig.s.exact => sig.s.text = htod(call.tx.signatures[1].s)
               /\ call.arbitrary_precision => sig.r.exact /\ sig.s.exact

C5_Witness ==
    /\ ret.kind = "json"
    /\ call.arbitrary_precision
    /\ call.tx.signatures[1].r = Fixture32
    /\ call.tx.value = U128Asc
    /\ Len(ret.body.signatures[1].r.text) = 77

---------------------------------------------------------------------------
(* PrivateKey::sign applied to every key, message and library answer *)

Messages == {Zeros(32), Fixture32, Repeat(255, 32), keccak256(<<1>>)}

InitSign ==
    /\ RunIdle
    /\ call \in [fn : {"sign"}, key : {1000, 2000}, message : Messages,
                 recovery_id : RecoveryIds, debug_assertions : BOOLEAN]
    /\ ret = NoRet

SignCall ==
    /\ call.fn = "sign"
    /\ ret = NoRet
    /\ ret' = PrivateKey_sign(call.key, call.message, call.recovery_id,
                              call.debug_assertions)
    /\ UNCHANGED <<call, runVars>>

NextSign == SignCall

SpecSign == InitSign /\ [][NextSign]_vars

\* C7 as stated: when the signing library does not accept the digest, sign
\* hands a SigningFailure value back to its caller; nothing ends in a panic.
C7_SignFailureIsAValue ==
    ret.kind # "none" =>
        /\ ret.kind # "panic"
        /\ ~MessageFromSlice(call.message).ok => ret.kind = "err"

\* C7 as the code has it: sign has no failure value.  When the library does
\* not accept the digest, sign panics with "invalid message" and returns
\* nothing; whenever it returns, it returns a Signature.
C7_SignFailureIsAPanic ==
    ret.kind # "none" =>
        /\ ret.kind \in {"signature", "panic"}
        /\ ~MessageFromSlice(call.message).ok =>
              ret = [kind |-> "panic", message |-> "invalid message"]
        /\ ret.kind = "signature" => MessageFromSlice(call.message).ok

C7_Witness ==
    /\ ret.kind = "panic"
    /\ ret.message = "invalid message"
    /\ call.message = Zeros(32)

\* C8: every Signature sign returns has v = 27 + the recovery id, which is
\* 27 or 28, for every recovery id the library can return; r is the first
\* and s the last 32 bytes of the compact signature.
C8_VIs27Or28 ==
    ret.kind = "signature" =>
        /\ ret.v \in {27, 28}
        /\ ret.v = 27 + call.recovery_id
        /\ ret.r \o ret.s = SerializeCompact(call.message, call.key)
        /\ Len(ret.r) = 32 /\ Len(ret.s) = 32

---------------------------------------------------------------------------
(* main.rs: run.  One action for each call run makes; what the terminal    *)
(* and the relay answer is chosen with \E.  A return, by `?`, by ensure! or *)
(* at the end, leaves the scope of run and drops every key still alive.  A *)
(* panic unwinds the same scope or aborts the process, as the build's      *)
(* panic strategy says; the sources fix neither.                           *)

Unused == [state |-> "unused", value |-> 0]
Live(key) == [state |-> "live", value |-> key]

Drop_keep(slot) ==
    IF slot.state = "live" THEN [state |-> "released", value |-> slot.value] ELSE slot

\* impl Drop for PrivateKey: self.0 = ONE_KEY, then the storage is released
Drop(slot) ==
    IF slot.state = "live" THEN [state |-> "released", value |-> ONE_KEY] ELSE slot

\* the end of the scope of run: every local is dropped
DropAll(slots) == [k \in DOMAIN slots |-> Drop(slots[k])]

\* `return res` from run
Return(res) ==
    /\ pc' = "returned"
    /\ result' = Some(res)
    /\ keys' = DropAll(keys)

PanicStrategies == {"unwind", "abort"}

\* a panic inside run: run returns nothing; unwinding drops the locals, an
\* abort ends the process with the locals as they are
PanicInRun(strategy) ==
    /\ pc' = IF strategy = "unwind" THEN "panicked" ELSE "aborted"
    /\ keys' = IF strategy = "unwind" THEN DropAll(keys) ELSE keys
    /\ UNCHANGED result

\* what the user may type at the password prompt
Passwords == ValidPhrases \cup {"", "not a phrase"}

\* what the user may answer to a prompt
Answers == {"yes", "no", "Yes", ""}

\* the io::Result of reading a line of one of the texts
IoResults(texts) == {Ok(t) : t \in texts} \cup {Err("io error")}

\* term::read_password, prompted: what rpassword::prompt_password_stdout gave
read_password(prompted) ==
    IF ~prompted.ok THEN prompted
    ELSE IF prompted.value = "" THEN Err("empty password")
    ELSE Ok(prompted.value)

confirm_any_case(line) ==
    IF line = None THEN Err("error reading from stdin")
    ELSE IF ~line[1].ok THEN line[1]
    ELSE IF line[1].value \notin {"yes", "Yes"} THEN Err("aborted")
    ELSE Ok(<<>>)

\* term::confirm, line: what stdin().lock().lines().next() gave
confirm(line) ==
    IF line = None THEN Err("error reading from stdin")
    ELSE IF ~line[1].ok THEN line[1]
    ELSE IF line[1].value # "yes" THEN Err("aborted")
    ELSE Ok(<<>>)

OtherOwner == Repeat(170, 20)
ThirdOwner == Repeat(187, 20)

\* the SafeInfo answers of the relay, for a Safe of the recovery addresses a0, a1
SafeInfos(a0, a1) ==
    [nonce : {UInt(9, 8)},
     threshold : {1, 2},
     owners : {<<a0, a1, OtherOwner>>, <<OtherOwner, a1, a0>>,
               <<a0, OtherOwner, ThirdOwner>>, <<OtherOwner, a1, ThirdOwner>>,
               <<a0, a1>>, <<a0, a1, OtherOwner, ThirdOwner>>},
     version : {"1.1.1", "1.2.0"}]

\* the Estimate answers of the relay
Estimates ==
    [safe_tx_gas : {UInt(43845, 16)},
     base_gas : {U128Desc},
     gas_price : {UInt(1536, 16)},
     last_used_nonce : {None},
     gas_token : {None, Some(Repeat(7, 20))},
     refund_receiver : {None, Some(AddrDesc)}]

\* Vec::contains
Contains(owners, a) == \E i \in 1..Len(owners) : owners[i] = a

InitRun ==
    /\ call = NoCall
    /\ ret = NoRet
    /\ pc = "read_password"
    /\ options \in [safe : {Repeat(1, 20)}, owner : {AddrSeq, Repeat(238, 20)},
                    gas_token : {None, Some(Repeat(7, 20))}]
    /\ debug_assertions \in BOOLEAN
    /\ seed_phrase = None
    /\ keys = [recovery_key |-> Unused, secondary |-> Unused]
    /\ secondary_recovery_address = None
    /\ info = None
    /\ estimate = None
    /\ tx = None
    /\ shown = None
    /\ signed_tx = None
    /\ posted = <<>>
    /\ requests = <<>>
    /\ answers = <<>>
    /\ result = None

\* main.rs 59
ReadPassword ==
    /\ pc = "read_password"
    /\ \E prompted \in IoResults(Passwords) :
          LET password == read_password(prompted)
          IN  IF password.ok
              THEN /\ seed_phrase' = Some(password.value)
                   /\ pc' = "recovery_key"
                   /\ UNCHANGED <<keys, result>>
              ELSE /\ Return(password)
                   /\ UNCHANGED seed_phrase
    /\ UNCHANGED <<call, ret, options, debug_assertions,
                   secondary_recovery_address, info, estimate, tx, shown,
                   signed_tx, posted, requests, answers>>

\* main.rs 60
DeriveRecoveryKey ==
    /\ pc = "recovery_key"
    /\ LET key == from_mnemonic(seed_phrase[1])
       IN  IF key.ok
           THEN /\ keys' = [keys EXCEPT !.recovery_key = Live(key.value)]
                /\ pc' = "secondary"
                /\ UNCHANGED result
           ELSE Return(key)
    /\ UNCHANGED <<call, ret, options, debug_assertions, seed_phrase,
                   secondary_recovery_address, info, estimate, tx, shown,
                   signed_tx, posted, requests, answers>>

DeriveSecondaryAddress_ignore_error ==
    /\ pc = "secondary"
    /\ LET key == from_mnemonic_at_index(seed_phrase[1], 1)
       IN  IF key.ok
           THEN /\ secondary_recovery_address' = Some(address(key.value))
                /\ keys' = [keys EXCEPT !.secondary = Drop(Live(key.value))]
           ELSE /\ secondary_recovery_address' = Some(AddressDefault)
                /\ keys' = [keys EXCEPT !.secondary = Drop(Live(ONE_KEY + 1))]
    /\ pc' = "get_safe"
    /\ UNCHANGED <<call, ret, options, debug_assertions, seed_phrase, info,
                   estimate, tx, shown, signed_tx, posted, requests, answers,
                   result>>

\* main.rs 61..69: the index-1 key lives for this statement alone
DeriveSecondaryAddress ==
    /\ pc = "secondary"
    /\ LET key == from_mnemonic_at_index(seed_phrase[1], 1)
       IN  IF key.ok
           THEN /\ secondary_recovery_address' = Some(address(key.value))
                /\ keys' = [keys EXCEPT !.secondary = Drop(Live(key.value))]
                /\ pc' = "get_safe"
                /\ UNCHANGED result
           ELSE /\ Return(key)
                /\ UNCHANGED secondary_recovery_address
    /\ UNCHANGED <<call, ret, options, debug_assertions, seed_phrase, info,
                   estimate, tx, shown, signed_tx, posted, requests, answers>>

\* main.rs 71: client.get_safe(options.safe)?
GetSafe ==
    /\ pc = "get_safe"
    /\ requests' = Append(requests, [method |-> "GET", endpoint |-> "safes",
                                     safe |-> options.safe])
    /\ \E response \in
            {Ok(i) : i \in SafeInfos(address(keys.recovery_key.value),
                                     secondary_recovery_address[1])}
                \cup {Err("HTTP 404")} :
          IF response.ok
          THEN /\ info' = Some(response.value)
               /\ pc' = "check_safe"
               /\ UNCHANGED <<keys, result>>
          ELSE /\ Return(response)
               /\ UNCHANGED info
    /\ UNCHANGED <<call, ret, options, debug_assertions, seed_phrase,
                   secondary_recovery_address, estimate, tx, shown, signed_tx,
                   posted, answers>>

\* main.rs 72..83: the three ensure!
CheckSafe ==
    /\ pc = "check_safe"
    /\ IF info[1].version # "1.1.1"
       THEN Return(Err("unsupported Safe version"))
       ELSE IF ~(Len(info[1].owners) = 3 /\ info[1].threshold = 1)
       THEN Return(Err("unsupported Safe configuration"))
       ELSE IF ~(/\ Contains(info[1].owners, address(keys.recovery_key.value))
                 /\ Contains(info[1].owners, secondary_recovery_address[1]))
       THEN Return(Err("recovery phrase is not for this Safe"))
       ELSE /\ pc' = "estimate"
            /\ UNCHANGED <<keys, result>>
    /\ UNCHANGED <<call, ret, options, debug_assertions, seed_phrase,
                   secondary_recovery_address, info, estimate, tx, shown,
                   signed_tx, posted, requests, answers>>

\* main.rs 85..92: client.estimate_safe_transaction(..)?
EstimateParameters ==
    [safe |-> options.safe,
     to |-> options.safe,
     value |-> UInt(0, 16),
     data |-> add_owner_with_threshold(options.owner, UInt(1, 4)),
     operation |-> "Call",
     gas_token |-> options.gas_token]

EstimateTransaction ==
    /\ pc = "estimate"
    /\ requests' = Append(requests, [method |-> "POST", endpoint |-> "estimate",
                                     safe |-> options.safe,
                                     body |-> EstimateParameters])
    /\ \E response \in {Ok(e) : e \in Estimates} \cup {Err("HTTP 422")} :
          IF response.ok
          THEN /\ estimate' = Some(response.value)
               /\ pc' = "confirm1"
               /\ UNCHANGED <<keys, result>>
          ELSE /\ Return(response)
               /\ UNCHANGED estimate
    /\ UNCHANGED <<call, ret, options, debug_assertions, seed_phrase,
                   secondary_recovery_address, info, tx, shown, signed_tx,
                   posted, answers>>

\* where run goes on after each of its five term::confirm(..)?
AfterConfirm(at) ==
    CASE at = "confirm1" -> "confirm2"
      [] at = "confirm2" -> "confirm3"
      [] at = "confirm3" -> "build_tx"
      [] at = "confirm4" -> "sign"
      [] at = "confirm5" -> "post"

\* main.rs 94..102, 127, 131
Confirm ==
    /\ pc \in {"confirm1", "confirm2", "confirm3", "confirm4", "confirm5"}
    /\ \E line \in {Some(l) : l \in IoResults(Answers)} \cup {None} :
          LET answer == confirm(line)
          IN  /\ answers' = Append(answers, line)
              /\ IF answer.ok
                 THEN /\ pc' = AfterConfirm(pc)
                      /\ UNCHANGED <<keys, result>>
                 ELSE Return(answer)
    /\ UNCHANGED <<call, ret, options, debug_assertions, seed_phrase,
                   secondary_recovery_address, info, estimate, tx, shown,
                   signed_tx, posted, requests>>

\* main.rs 104..115
NewTransaction ==
    [to |-> options.safe,
     value |-> UInt(0, 16),
     data |-> add_owner_with_threshold(options.owner, UInt(1, 4)),
     operation |-> "Call",
     safe_tx_gas |-> estimate[1].safe_tx_gas,
     base_gas |-> estimate[1].base_gas,
     gas_price |-> estimate[1].gas_price,
     gas_token |-> estimate[1].gas_token,
     refund_receiver |-> estimate[1].refund_receiver,
     nonce |-> info[1].nonce]

\* "0x", ASCII
Prefix0x == <<48, 120>>

\* Display of u128 and u64: the decimal digits of the value
DisplayUInt(x) == htod(ToBeBytes(x))

\* nibble i (1 is the high nibble of the first byte) of a byte string
Nibble(bytes, i) ==
    IF i % 2 = 1 THEN bytes[(i + 1) \div 2] \div 16 ELSE bytes[i \div 2] % 16

\* Display of Address: 0x and the 40 hexadecimal digits in the checksummed
\* mixed-case form, a letter in upper case where the matching nibble of the
\* hash of the lower-case digits is 8 or more
DisplayAddress(a) ==
    LET lower == HexEncode(a)
        hash == keccak256(lower)
    IN  Prefix0x \o ([i \in 1..40 |->
                        IF lower[i] >= 97 /\ Nibble(hash, i) >= 8
                        THEN lower[i] - 32 ELSE lower[i]] \o <<>>)

\* main.rs 140..148: "-" for None
display_option(value) ==
    IF value = None THEN <<45>> ELSE DisplayAddress(value[1])

\* Display of Operation (data.rs 27..31): "call"
DisplayOperation(operation) == <<99, 97, 108, 108>>

\* main.rs 116..126: what run prints of the record, line by line
Printed(self, safe) ==
    [to |-> DisplayAddress(self.to),
     value |-> DisplayUInt(self.value),
     data |-> Prefix0x \o HexEncode(self.data),
     operation |-> DisplayOperation(self.operation),
     safe_tx_gas |-> DisplayUInt(self.safe_tx_gas),
     base_gas |-> DisplayUInt(self.base_gas),
     gas_price |-> DisplayUInt(self.gas_price),
     gas_token |-> display_option(self.gas_token),
     refund_receiver |-> display_option(self.refund_receiver),
     nonce |-> DisplayUInt(self.nonce),
     hash |-> Prefix0x \o HexEncode(SafeTransaction_hash(self, safe))]

\* main.rs 104..126: the record is built, then printed with its hash
BuildTransaction ==
    /\ pc = "build_tx"
    /\ tx' = Some(NewTransaction)
    /\ shown' = Some(Printed(NewTransaction, options.safe))
    /\ pc' = "confirm4"
    /\ UNCHANGED <<call, ret, options, debug_assertions, seed_phrase, keys,
                   secondary_recovery_address, info, estimate, signed_tx,
                   posted, requests, answers, result>>

\* the struct literal of SafeTransaction::sign (tx.rs 81..94), the Signature
\* given
SignedSafeTransaction(self, safe, signature) ==
    [safe |-> safe,
     to |-> self.to,
     value |-> self.value,
     data |-> self.data,
     operation |-> self.operation,
     gas_token |-> self.gas_token,
     safe_tx_gas |-> self.safe_tx_gas,
     data_gas |-> self.base_gas,
     gas_price |-> self.gas_price,
     refund_receiver |-> self.refund_receiver,
     nonce |-> self.nonce,
     signatures |-> <<signature>>]

\* what the Signature of key.sign is in a SignedSafeTransaction
AsSignature(signature) ==
    [v |-> signature.v, r |-> signature.r, s |-> signature.s]

SafeTransaction_sign_hash_to(self, safe, key, recovery_id, debug) ==
    LET signature == PrivateKey_sign(key, SafeTransaction_hash(self, self.to),
                                     recovery_id, debug)
    IN  IF signature.kind = "panic" THEN signature
        ELSE [kind |-> "signed",
              value |-> SignedSafeTransaction(self, safe, AsSignature(signature))]

SafeTransaction_sign_zero_gas_price(self, safe, key, recovery_id, debug) ==
    LET other == [self EXCEPT !.gas_price = U128Zero]
        signature == PrivateKey_sign(key, SafeTransaction_hash(other, safe),
                                     recovery_id, debug)
    IN  IF signature.kind = "panic" THEN signature
        ELSE [kind |-> "signed",
              value |-> SignedSafeTransaction(other, safe, AsSignature(signature))]

\* SafeTransaction::sign (tx.rs 80..95): the SignedSafeTransaction, or the
\* panic of key.sign
SafeTransaction_sign(self, safe, key, recovery_id, debug) ==
    LET signature == PrivateKey_sign(key, SafeTransaction_hash(self, safe),
                                     recovery_id, debug)
    IN  IF signature.kind = "panic" THEN signature
        ELSE [kind |-> "signed",
              value |-> SignedSafeTransaction(self, safe, AsSignature(signature))]

\* main.rs 129..130: tx.sign(options.safe, &recovery_key)
SignTransaction ==
    /\ pc = "sign"
    /\ \E recovery_id \in RecoveryIds :
          LET signed == SafeTransaction_sign(tx[1], options.safe,
                                             keys.recovery_key.value,
                                             recovery_id, debug_assertions)
          IN  IF signed.kind = "panic"
              THEN /\ \E strategy \in PanicStrategies : PanicInRun(strategy)
                   /\ UNCHANGED signed_tx
              ELSE /\ signed_tx' = Some(signed.value)
                   /\ pc' = "confirm5"
                   /\ UNCHANGED <<keys, result>>
    /\ UNCHANGED <<call, ret, options, debug_assertions, seed_phrase,
                   secondary_recovery_address, info, estimate, tx, shown,
                   posted, requests, answers>>

\* main.rs 133..137: client.post_transaction(signed_tx)?, then Ok(())
PostTransaction ==
    /\ pc = "post"
    /\ posted' = Append(posted, signed_tx[1])
    /\ requests' = Append(requests, [method |-> "POST", endpoint |-> "transactions",
                                     safe |-> signed_tx[1].safe,
                                     body |-> signed_tx[1]])
    /\ \E response \in {Ok(<<>>), Err("HTTP 500")} : Return(response)
    /\ UNCHANGED <<call, ret, options, debug_assertions, seed_phrase,
                   secondary_recovery_address, info, estimate, tx, shown,
                   signed_tx, answers>>

Next ==
    \/ ReadPassword
    \/ DeriveRecoveryKey
    \/ DeriveSecondaryAddress
    \/ GetSafe
    \/ CheckSafe
    \/ EstimateTransaction
    \/ Confirm
    \/ BuildTransaction
    \/ SignTransaction
    \/ PostTransaction

Spec == InitRun /\ [][Next]_vars

\* C6: every PrivateKey that was constructed is overwritten with ONE_KEY
\* before its storage is released, on every exit path of run; when run has
\* returned, with Ok or with an error, or has unwound, no key is left alive,
\* the index-1 key is gone as soon as the secondary address is known, and a
\* run that got as far as the relay has constructed and released both keys.
C6_KeysWipedOnEveryExit ==
    \A k \in DOMAIN keys :
        /\ keys[k].state = "released" => keys[k].value = ONE_KEY
        /\ keys[k].state = "live" => keys[k].value # ONE_KEY
        /\ pc \in {"returned", "panicked"} => keys[k].state # "live"
        /\ keys[k].state = "unused" =>
              \/ pc \in {"read_password", "recovery_key"}
              \/ pc = "secondary" /\ k = "secondary"
              \/ pc = "returned" /\ ~result[1].ok /\ info = None
        /\ k = "secondary" => keys[k].state # "live"

C6_Witness ==
    /\ pc = "returned"
    /\ result = Some(Err("aborted"))
    /\ signed_tx # None
    /\ keys.recovery_key = [state |-> "released", value |-> ONE_KEY]
    /\ keys.secondary = [state |-> "released", value |-> ONE_KEY]

---------------------------------------------------------------------------
(* run and a failed key derivation *)

\* the first derivation of run that fails for the phrase, index 0 before
\* index 1, or NoRet when both succeed
FirstDerivationFailure(phrase) ==
    IF ~from_mnemonic(phrase).ok THEN from_mnemonic(phrase)
    ELSE IF ~from_mnemonic_at_index(phrase, 1).ok
    THEN from_mnemonic_at_index(phrase, 1)
    ELSE NoRet

\* C11: when the derivation of the index-0 or of the index-1 key fails for
\* the phrase that was read, run goes no further than the failing derivation
\* and returns exactly that error: no request has been sent to the relay, no
\* Safe information or estimate was received, no transaction record was
\* built or shown, no signature was made, no prompt was answered and nothing
\* was posted.
C11_DerivationFailureStopsRun ==
    (seed_phrase # None /\ FirstDerivationFailure(seed_phrase[1]) # NoRet) =>
        /\ pc \in {"recovery_key", "secondary", "returned"}
        /\ ~from_mnemonic(seed_phrase[1]).ok => pc # "secondary"
        /\ pc = "returned" => result = Some(FirstDerivationFailure(seed_phrase[1]))
        /\ requests = <<>>
        /\ info = None
        /\ estimate = None
        /\ tx = None
        /\ shown = None
        /\ signed_tx = None
        /\ answers = <<>>
        /\ posted = <<>>

C11_Witness ==
    /\ pc = "returned"
    /\ seed_phrase = Some("legal winner thank")
    /\ from_mnemonic(seed_phrase[1]).ok
    /\ result = Some(Err("failed to derive key from seed"))
    /\ keys.recovery_key.state = "released"
    /\ requests = <<>>

---------------------------------------------------------------------------
(* SafeTransaction::sign applied to records, Safe addresses and keys *)

SignTransactions ==
    [to : {AddrSeq},
     value : {U128Zero, U128Asc},
     data : {<<>>, <<3>>},
     operation : Operations,
     safe_tx_gas : {UInt(4, 16)},
     base_gas : {UInt(5, 16)},
     gas_price : {UInt(1536, 16)},
     gas_token : {None, Some(Repeat(7, 20))},
     refund_receiver : {None, Some(AddrDesc)},
     nonce : {UInt(9, 8)}]

InitTxSign ==
    /\ RunIdle
    /\ call \in [fn : {"tx_sign"}, tx : SignTransactions,
                 safe : {AddrSeq, AddrDesc}, key : {1000, 2000},
                 recovery_id : RecoveryIds, debug_assertions : BOOLEAN]
    /\ ret = NoRet

\* sign borrows the record (&self) and returns a new value: self is the
\* record as the call leaves it
TxSignCall ==
    /\ call.fn = "tx_sign"
    /\ ret = NoRet
    /\ ret' = [self |-> call.tx,
               signed |-> SafeTransaction_sign(call.tx, call.safe, call.key,
                                               call.recovery_id,
                                               call.debug_assertions)]
    /\ UNCHANGED <<call, runVars>>

NextTxSign == TxSignCall

SpecTxSign == InitTxSign /\ [][NextTxSign]_vars

\* C12: the signed transaction sign returns has the record's to, value, data,
\* operation, gas_token, safe_tx_gas, gas_price, refund_receiver and nonce,
\* the record's base_gas as data_gas and the given safe as safe, and exactly
\* one signature: that of key.sign over the digest hash(safe) of this record
\* and this safe; the record is as it was.
C12_SignCopiesRecordAndSignsItsDigest ==
    (ret # NoRet /\ ret.signed.kind = "signed") =>
        LET signed == ret.signed.value
            expected == PrivateKey_sign(call.key,
                                        keccak256(HashBuffer(call.tx, call.safe)),
                                        call.recovery_id, call.debug_assertions)
        IN  /\ signed.safe = call.safe
            /\ signed.to = call.tx.to
            /\ signed.value = call.tx.value
            /\ signed.data = call.tx.data
            /\ signed.operation = call.tx.operation
            /\ signed.gas_token = call.tx.gas_token
            /\ signed.safe_tx_gas = call.tx.safe_tx_gas
            /\ signed.data_gas = call.tx.base_gas
            /\ signed.gas_price = call.tx.gas_price
            /\ signed.refund_receiver = call.tx.refund_receiver
            /\ signed.nonce = call.tx.nonce
            /\ DOMAIN signed = {"safe", "to", "value", "data", "operation",
                                "gas_token", "safe_tx_gas", "data_gas",
                                "gas_price", "refund_receiver", "nonce",
                                "signatures"}
            /\ Len(signed.signatures) = 1
            /\ expected.kind = "signature"
            /\ signed.signatures[1] = [v |-> expected.v, r |-> expected.r,
                                       s |-> expected.s]
            /\ ret.self = call.tx

C12_Witness ==
    /\ ret # NoRet
    /\ ret.signed.kind = "signed"
    /\ call.safe # call.tx.to
    /\ call.tx.base_gas # call.tx.safe_tx_gas
    /\ call.tx.gas_token # None
    /\ Len(ret.signed.value.signatures) = 1

---------------------------------------------------------------------------
(* run: what is printed, what is signed and what is posted *)

\* the value of a hexadecimal digit, of either case
HexValue(c) == IF c <= 57 THEN c - 48 ELSE IF c >= 97 THEN c - 87 ELSE c - 55

\* the bytes a string of hexadecimal digits with the prefix 0x denotes
HexDecode(text) ==
    [i \in 1..((Len(text) - 2) \div 2) |->
        16 * HexValue(text[2 * i + 1]) + HexValue(text[2 * i + 2])] \o <<>>

\* the Option<Address> a line printed by display_option denotes
ReadOption(text) == IF text = <<45>> THEN None ELSE Some(HexDecode(text))

\* C13: the digest printed before the fourth confirmation is the digest of
\* the record and of options.safe, and it is the digest that is signed with
\* the recovery key; what is posted is the signed transaction, once, and its
\* fields are the values that were printed; once built, the record, the
\* printed lines and the command line never change, nor does the signed
\* transaction once made.
C13_ShownIsSignedIsPosted ==
    /\ [](/\ (tx = None) = (shown = None)
          /\ pc = "confirm4" =>
                HexDecode(shown[1].hash) =
                    keccak256(HashBuffer(tx[1], options.safe))
          /\ signed_tx # None =>
                /\ shown # None
                /\ \E recovery_id \in RecoveryIds :
                      LET signature ==
                              PrivateKey_sign(from_mnemonic(seed_phrase[1]).value,
                                              HexDecode(shown[1].hash),
                                              recovery_id, debug_assertions)
                      IN  /\ signature.kind = "signature"
                          /\ signed_tx[1].signatures = <<AsSignature(signature)>>
          /\ posted # <<>> =>
                /\ signed_tx # None
                /\ posted = <<signed_tx[1]>>
                /\ posted[1].safe = options.safe
                /\ HexDecode(shown[1].to) = posted[1].to
                /\ ParseDecimal(shown[1].value) = Minimal(ToBeBytes(posted[1].value))
                /\ HexDecode(shown[1].data) = posted[1].data
                /\ shown[1].operation = DisplayOperation(posted[1].operation)
                /\ ParseDecimal(shown[1].safe_tx_gas) =
                      Minimal(ToBeBytes(posted[1].safe_tx_gas))
                /\ ParseDecimal(shown[1].base_gas) =
                      Minimal(ToBeBytes(posted[1].data_gas))
                /\ ParseDecimal(shown[1].gas_price) =
                      Minimal(ToBeBytes(posted[1].gas_price))
                /\ ReadOption(shown[1].gas_token) = posted[1].gas_token
                /\ ReadOption(shown[1].refund_receiver) = posted[1].refund_receiver
                /\ ParseDecimal(shown[1].nonce) = Minimal(ToBeBytes(posted[1].nonce)))
    /\ [][/\ options' = options
          /\ tx # None => tx' = tx
          /\ shown # None => shown' = shown
          /\ signed_tx # None => signed_tx' = signed_tx]_vars

C13_Witness ==
    /\ pc = "returned"
    /\ result = Some(Ok(<<>>))
    /\ Len(posted) = 1
    /\ shown # None
    /\ posted[1].gas_token # None
    /\ posted[1].signatures[1].v = 28

---------------------------------------------------------------------------
(* run: what comes before the post *)

\* the line "yes" read from stdin
Yes == Some(Ok("yes"))

\* the endpoints of the requests sent so far, in order
Endpoints == [i \in 1..Len(requests) |-> requests[i].endpoint] \o <<>>

\* C14: post_transaction is called at most once, and only after the Safe
\* lookup returned version 1.1.1, exactly 3 owners and threshold 1 with both
\* recovery addresses among the owners, then the estimate succeeded, then
\* each of the five prompts was answered with exactly "yes"; the signature
\* is made only after the first four answers; any other answer, or the end
\* of input, ends run with an error and nothing is posted.
C14_PostOnlyAfterChecksAndFiveYes ==
    /\ Len(posted) <= 1
    /\ Cardinality({i \in 1..Len(requests) : requests[i].endpoint = "transactions"})
          = Len(posted)
    /\ Endpoints \in {<<>>, <<"safes">>, <<"safes", "estimate">>,
                      <<"safes", "estimate", "transactions">>}
    /\ answers # <<>> =>
          /\ Len(answers) <= 5
          /\ estimate # None
          /\ Len(requests) >= 2
          /\ \A i \in 1..(Len(answers) - 1) : answers[i] = Yes
    /\ Len(requests) >= 2 =>
          /\ info # None
          /\ info[1].version = "1.1.1"
          /\ Len(info[1].owners) = 3
          /\ info[1].threshold = 1
          /\ \E i \in 1..3 :
                info[1].owners[i] = address(from_mnemonic(seed_phrase[1]).value)
          /\ \E i \in 1..3 :
                info[1].owners[i] =
                    address(from_mnemonic_at_index(seed_phrase[1], 1).value)
    /\ signed_tx # None =>
          /\ Len(answers) >= 4
          /\ \A i \in 1..4 : answers[i] = Yes
    /\ posted # <<>> =>
          /\ estimate # None
          /\ signed_tx # None
          /\ answers = <<Yes, Yes, Yes, Yes, Yes>>
          /\ pc = "returned"
    /\ (\E i \in 1..Len(answers) : answers[i] # Yes) =>
          /\ pc = "returned"
          /\ ~result[1].ok
          /\ posted = <<>>
          /\ Len(requests) = 2

C14_Witness ==
    /\ posted # <<>>
    /\ result = Some(Ok(<<>>))
    /\ answers = <<Yes, Yes, Yes, Yes, Yes>>
    /\ info[1].owners[1] = OtherOwner
    /\ Endpoints = <<"safes", "estimate", "transactions">>

===========================================================================
